---- MODULE Spec2Model ----
(***************************************************************************)
(* screman: control of one macOS display (cgdisplay.py) and capture of     *)
(* frames from it into an image file (cgdisplaystream.py).                 *)
(*                                                                         *)
(* Specifications over one set of variables:                               *)
(*   Spec        one display handle on a machine with one active display,  *)
(*               its constructor and its commands, each command one atomic *)
(*               action (single caller);                                   *)
(*   SpecCtor    the constructor alone, over every set of active displays; *)
(*   SpecStream  one capture object: run(), frame deliveries, stop();      *)
(*   SpecExt     run() applied once to every bounded path (the extension   *)
(*               check as a function of the path);                         *)
(*   SpecConc    two threads issuing mutating commands on one handle,      *)
(*               each command split at the points where the interpreter    *)
(*               can switch threads.                                       *)
(***************************************************************************)
EXTENDS Integers, Sequences, FiniteSets, TLC

\* ------------------------------------------------------------------ bounds
MaxId == 2            \* display ids range over -1..MaxId
MaxOps == 2           \* commands issued on one handle
MaxModes == 2         \* size of the mode list the device reports
MaxCoord == 1         \* cursor coordinates range over -1..MaxCoord
MaxPathLen == 4       \* length of the paths enumerated over Alphabet
MaxRuns == 2          \* run() calls on one capture object
MaxFrames == 2        \* frames delivered to one capture object
MaxStops == 1         \* stop() calls on one capture object
NThreads == 2         \* threads sharing one handle
MaxCoeff == 1         \* gamma coefficients range over -1..MaxCoeff
MaxRaw == 20          \* raw statuses range MaxRaw around 0 and around 1000

\* ------------------------------------------------- program constants
kCGErrorSuccess == 0
kCGErrorFailure == 1000
kCGErrorIllegalArgument == 1001
kCGErrorRangeCheck == 1007
kCGErrorNoneAvailable == 1011
kDisplayVendorIDUnknown == 1970170734
kDisplayModeNativeFlag == 33554432
\* self.status = kCGErrorTypes(NoneType): the placeholder set by __init__
StatusPlaceholder == -1
\* width and height Quartz.CGDisplayBounds reports for the display
DisplayW == 1
DisplayH == 1

\* raw statuses a platform primitive may hand back
RawStatuses == {kCGErrorSuccess, kCGErrorFailure, kCGErrorIllegalArgument,
                kCGErrorRangeCheck}

Ids == (-1)..MaxId
Subsystems == {"legacy", "truetone", "brightness"}
Angles == {0, 45, 90, 180}
Coeffs == {1, 2}
Coords == (-1)..MaxCoord
Threads == 1..NThreads

VARIABLES
  \* the platform
  activeSet,     \* ids Quartz.CGGetActiveDisplayList reports
  mainDisplay,   \* Quartz.CGMainDisplayID()
  builtinSet,    \* ids for which Quartz.CGDisplayIsBuiltin is true
  avail,         \* optional subsystems that can be loaded on this OS build
  hw,            \* hardware state of the display
  \* the handle (CGDisplayDelegate / _DisplayCallbackDelegate)
  hState,        \* "none" | "ok" | "IndexError" | "ValueError"
  ctorId,        \* the id passed to the constructor
  display,       \* self.display
  status,        \* self.status
  \* bookkeeping of the calls made
  loadCount,     \* per subsystem, the number of load attempts so far
  opCount,       \* commands issued so far
  call,          \* the last command: name, arguments, result, primitives
  \* the capture object (DisplayStreamDelegate) and its platform side
  sess,          \* constructor outcome and the fields display, pixel_format
  runsLeft,      \* run() calls the caller still makes
  runPc,         \* "idle" | "sleeping": where the caller is inside run()
  runCall,       \* the last run() call: path, result, resources acquired
  streams,       \* the streams created and started so far, by their path
  live,          \* indices of the streams that still deliver frames
  queues,        \* times a delivery queue was obtained
  deliveries,    \* frames the platform has handed to the handler, in order
  writeLog,      \* file writes made by the handler, in order
  files,         \* path -> frame held by the file at that path
  stopCalls,     \* stop() calls that have returned to the caller
  \* threads issuing mutating commands on the handle
  pc,            \* thread -> "idle" | "inPrim" | "stored" | "done"
  tOp,           \* thread -> the command it runs
  own,           \* thread -> the status its own platform call handed back
  tRet,          \* thread -> what its command returned
  writers        \* threads inside a platform call that writes the hardware

dvars == <<activeSet, mainDisplay, builtinSet, avail, hw, hState, ctorId,
           display, status, loadCount, opCount, call>>

svars == <<sess, runsLeft, runPc, runCall, streams, live, queues,
           deliveries, writeLog, files, stopCalls>>

cvars == <<pc, tOp, own, tRet, writers>>

vars == <<dvars, svars, cvars>>

\* --------------------------------------------------------- results
\* kCGErrorTypes(n)
Err(n) == [kind |-> "err", n |-> n, exc |-> ""]
\* return None (also falling off the end of a function)
RetNone == [kind |-> "none", n |-> 0, exc |-> ""]
\* an uncaught exception
Raise(e) == [kind |-> "raise", n |-> 0, exc |-> e]
\* any other returned object, abstracted to an integer
Value(v) == [kind |-> "value", n |-> v, exc |-> ""]

NoCall == [op |-> "", args |-> <<>>, ret |-> RetNone, prims |-> {},
           cap |-> FALSE, count |-> 0, raw |-> 0]

Done(op, args, ret, prims, cap, count, raw) ==
  /\ opCount' = opCount + 1
  /\ call' = [op |-> op, args |-> args, ret |-> ret, prims |-> prims,
              cap |-> cap, count |-> count, raw |-> raw]

NoTransfer == [size |-> 0, red |-> <<>>, green |-> <<>>, blue |-> <<>>]

HwInit == [orientation |-> 0, gamma |-> <<0, 0, 0>>, mode |-> 0,
           cursor |-> <<0, 0>>, trueTone |-> FALSE, brightness |-> 0,
           transfer |-> NoTransfer]

\* -------------------------------------------------------- constructor
isDisplayAlways(d, act) == TRUE

\* _isDisplay: membership in the live active-display list
isDisplay(d, act) == d \in act

\* display or Quartz.CGMainDisplayID(): 0 is the only falsy id
displayOrMain(id, main) == IF id # 0 THEN id ELSE main

\* CGDisplayDelegate.__init__
Construct(id, builtin) ==
  /\ hState = "none"
  /\ ctorId' = id
  /\ display' = displayOrMain(id, mainDisplay)
  /\ status' = StatusPlaceholder
  /\ hState' = IF ~isDisplay(display', activeSet) \/ display' < 0
                 THEN "IndexError"
               ELSE IF builtin # (display' \in builtinSet)
                 THEN "ValueError"
               ELSE "ok"
  /\ UNCHANGED <<activeSet, mainDisplay, builtinSet, avail, hw, loadCount,
                 opCount, call, svars, cvars>>

\* --------------------------------------------------------------- _load
\* _load runs objc.loadBundle('MonitorPanel'), objc.loadBundle(
\* 'CoreBrightness') and ctypes.CDLL(DisplayServices) in that order, on every
\* call; the first one that cannot be loaded raises and ends the call.
loadAttempted(av) ==
  IF "legacy" \notin av THEN {"legacy"}
  ELSE IF "truetone" \notin av THEN {"legacy", "truetone"}
  ELSE Subsystems

loadOk(av) == av = Subsystems

\* the effect of one _load() call on the count of load attempts
load == loadCount' = [s \in Subsystems |->
                        loadCount[s] + (IF s \in loadAttempted(avail) THEN 1 ELSE 0)]

CanCall == hState = "ok" /\ opCount < MaxOps

Env == <<activeSet, mainDisplay, builtinSet, avail, hState, ctorId, display>>

\* a command whose _load() raised: nothing else happens
LoadFault(op, args) ==
  /\ Done(op, args, Raise("ImportError"), {}, FALSE, 0, 0)
  /\ UNCHANGED <<status, hw>>

\* ------------------------------------------------------------ commands
\* if self.status == self._kCGErrorSuccess: return kCGErrorTypes(0)
\* return kCGErrorTypes(self.status)
plainResult(st) == IF st = kCGErrorSuccess THEN Err(kCGErrorSuccess) ELSE Err(st)

\* _setDisplayMode(modeIndex); count = len(display.allModes()), r = the
\* status display.setMode_ hands back
SetDisplayMode(modeIndex, count, r) ==
  /\ CanCall
  /\ load
  /\ IF ~loadOk(avail) THEN LoadFault("setDisplayMode", <<modeIndex>>)
     ELSE IF modeIndex <= 0 \/ modeIndex > count
       THEN /\ Done("setDisplayMode", <<modeIndex>>,
                    Err(kCGErrorIllegalArgument), {}, TRUE, count, 0)
            /\ UNCHANGED <<status, hw>>
     \* mode = modes[modeIndex]: positions run from 0 to count - 1
     ELSE IF modeIndex >= count
       THEN /\ Done("setDisplayMode", <<modeIndex>>, Raise("IndexError"),
                    {}, TRUE, count, 0)
            /\ UNCHANGED <<status, hw>>
     ELSE /\ status' = r
          /\ hw' = IF r = kCGErrorSuccess
                     THEN [hw EXCEPT !.mode = modeIndex + 1] ELSE hw
          /\ Done("setDisplayMode", <<modeIndex>>, plainResult(r), {"setMode"},
                  TRUE, count, r)
  /\ UNCHANGED <<Env, svars, cvars>>

\* the result of _setRotation once setOrientation_ has handed back r
rotationResult(angle, r) ==
  IF r = kCGErrorSuccess THEN Err(kCGErrorSuccess)
  ELSE IF angle % 90 # 0 THEN Err(kCGErrorIllegalArgument)
  ELSE Err(r)

\* _setRotation(angle); can = canChangeOrientation()
SetRotation(angle, can, r) ==
  /\ CanCall
  /\ load
  /\ IF ~loadOk(avail) THEN LoadFault("setRotation", <<angle>>)
     ELSE IF can
       THEN /\ status' = r
            /\ hw' = IF r = kCGErrorSuccess
                       THEN [hw EXCEPT !.orientation = angle] ELSE hw
            /\ Done("setRotation", <<angle>>, rotationResult(angle, r),
                    {"setOrientation"}, TRUE, 0, r)
     ELSE /\ Done("setRotation", <<angle>>, RetNone, {}, FALSE, 0, 0)
          /\ UNCHANGED <<status, hw>>
  /\ UNCHANGED <<Env, svars, cvars>>

\* _defaultMode(); has = the device reports a default mode
DefaultMode(has) ==
  /\ CanCall
  /\ load
  /\ IF ~loadOk(avail) THEN LoadFault("defaultMode", <<>>)
     ELSE /\ Done("defaultMode", <<>>,
                  IF has THEN Value(1) ELSE Err(kCGErrorNoneAvailable),
                  {}, has, 0, 0)
          /\ UNCHANGED <<status, hw>>
  /\ UNCHANGED <<Env, svars, cvars>>

\* _setDisplayBrightness(value); r = DisplayServicesSetBrightness's status,
\* kept in a local: self.status is read but not written
SetDisplayBrightness(value, r) ==
  /\ CanCall
  /\ load
  /\ IF ~loadOk(avail) THEN LoadFault("setDisplayBrightness", <<value>>)
     ELSE /\ hw' = IF r = kCGErrorSuccess
                     THEN [hw EXCEPT !.brightness = value] ELSE hw
          /\ Done("setDisplayBrightness", <<value>>,
                  IF r = kCGErrorSuccess THEN Err(kCGErrorSuccess)
                  ELSE Err(status),
                  {"setBrightness"}, TRUE, 0, r)
          /\ UNCHANGED status
  /\ UNCHANGED <<Env, svars, cvars>>

\* _getDisplayBrightness()
GetDisplayBrightness(r) ==
  /\ CanCall
  /\ load
  /\ IF ~loadOk(avail) THEN LoadFault("getDisplayBrightness", <<>>)
     ELSE /\ status' = r
          /\ Done("getDisplayBrightness", <<>>, Value(hw.brightness), {},
                  TRUE, 0, r)
          /\ UNCHANGED hw
  /\ UNCHANGED <<Env, svars, cvars>>

\* _switchTrueTone(); sup = client.available() and client.supported(),
\* took = setEnabled_ changed what client.enabled() reports
SwitchTrueTone(sup, took) ==
  /\ CanCall
  /\ load
  /\ IF ~loadOk(avail) THEN LoadFault("switchTrueTone", <<>>)
     ELSE IF sup
       THEN /\ status' = IF took THEN 1 ELSE 0
            /\ hw' = IF took THEN [hw EXCEPT !.trueTone = ~hw.trueTone]
                     ELSE hw
            /\ Done("switchTrueTone", <<>>,
                    IF took THEN Err(kCGErrorSuccess) ELSE RetNone,
                    {"setTrueTone"}, TRUE, 0, status')
     ELSE /\ Done("switchTrueTone", <<>>, RetNone, {}, FALSE, 0, 0)
          /\ UNCHANGED <<status, hw>>
  /\ UNCHANGED <<Env, svars, cvars>>

\* _displayProperties()
DisplayProperties ==
  /\ CanCall
  /\ load
  /\ IF ~loadOk(avail) THEN LoadFault("displayProperties", <<>>)
     ELSE /\ Done("displayProperties", <<>>, Value(0), {}, TRUE, 0, 0)
          /\ UNCHANGED <<status, hw>>
  /\ UNCHANGED <<Env, svars, cvars>>

\* the result of _setGamma once CGSetDisplayTransferByFormula handed back r
gammaResult(r) ==
  IF r = kCGErrorSuccess THEN Err(kCGErrorSuccess)
  ELSE IF r = kCGErrorRangeCheck THEN RetNone
  ELSE Err(r)

channelsNotAllEqual(red, blue, green) == ~(red = blue /\ blue = green)

\* red == blue == green
channelsEqual(red, blue, green) == red = blue /\ blue = green

\* _setGamma(red, blue, green)
SetGamma(red, blue, green, r) ==
  /\ CanCall
  /\ IF channelsEqual(red, blue, green)
       THEN /\ Done("setGamma", <<red, blue, green>>,
                    Err(kCGErrorIllegalArgument), {}, FALSE, 0, 0)
            /\ UNCHANGED <<status, hw>>
     ELSE /\ status' = r
          /\ hw' = IF r = kCGErrorSuccess
                     THEN [hw EXCEPT !.gamma = <<red, green, blue>>] ELSE hw
          /\ Done("setGamma", <<red, blue, green>>, gammaResult(r),
                  {"setGamma"}, FALSE, 0, r)
  /\ UNCHANGED <<Env, loadCount, svars, cvars>>

\* _moveTo(x, y); the bounds are those of Quartz.CGDisplayBounds
MoveTo(x, y, r) ==
  /\ CanCall
  /\ IF x >= DisplayW \/ y >= DisplayH
       THEN /\ Done("moveTo", <<x, y>>, Err(kCGErrorIllegalArgument), {},
                    FALSE, 0, 0)
            /\ UNCHANGED <<status, hw>>
     ELSE /\ status' = r
          /\ hw' = IF r = kCGErrorSuccess
                     THEN [hw EXCEPT !.cursor = <<x, y>>] ELSE hw
          /\ Done("moveTo", <<x, y>>, plainResult(r), {"moveCursor"}, FALSE,
                  0, r)
  /\ UNCHANGED <<Env, loadCount, svars, cvars>>

\* ---------------------------------------------------------- translation
\* a returned name; the name is carried in the field exc
Name(s) == [kind |-> "name", n |-> 0, exc |-> s]

\* query_exc of err_to_exception
query_exc ==
  (kCGErrorSuccess :> "_kCGErrorSuccess")
  @@ (kCGErrorFailure :> "_kCGErrorFailure")
  @@ (kCGErrorIllegalArgument :> "_kCGErrorIllegalArgument")
  @@ (kCGErrorNoneAvailable :> "_kCGErrorNoneAvailable")
  @@ (kDisplayVendorIDUnknown :> "_kDisplayVendorIDUnknown")
  @@ (kCGErrorRangeCheck :> "_kCGErrorRangeCheck")

err_to_exception_strict(err) ==
  IF err \in DOMAIN query_exc THEN query_exc[err] ELSE "_kCGErrorFailure"

\* query_exc.get(err, query_exc[0])
err_to_exception(err) ==
  IF err \in DOMAIN query_exc THEN query_exc[err] ELSE query_exc[0]

\* raw statuses handed to the translation
TranslateInputs ==
  ((-MaxRaw)..MaxRaw) \cup ((1000 - MaxRaw)..(1000 + MaxRaw))
    \cup {kDisplayVendorIDUnknown, 424242}

\* kCGErrorTypes(n).err()
ErrName(n) ==
  /\ opCount < MaxOps
  /\ Done("err", <<n>>, Name(err_to_exception(n)), {}, FALSE, 0, n)
  /\ UNCHANGED <<Env, hw, status, loadCount, svars, cvars>>

\* ------------------------------------------------------------- pressKey
\* A key name is a sequence of pieces: the prefixes "kVK_" and "ANSI_" and a
\* last piece that names the key, so that startswith and '+' are operations
\* on sequences.
ANSIPrefix == <<"kVK_", "ANSI_">>
KVKPrefix == <<"kVK_">>

\* keycode of mapping.py: the ANSI keys, with the key codes of Carbon's
\* Events.h (kVK_ANSI_A is 0)
keycode ==
  (<<"kVK_", "ANSI_", "A">> :> 0)
  @@ (<<"kVK_", "ANSI_", "S">> :> 1)
  @@ (<<"kVK_", "ANSI_", "1">> :> 18)

\* c_keycode of mapping.py: the keys that do not depend on the layout
c_keycode ==
  (<<"kVK_", "Return">> :> 36)
  @@ (<<"kVK_", "Space">> :> 49)

\* dict.get(k, None) hands back None: no key code
NoKey == -1

\* names passed to pressKey
KeyInputs ==
  {<<"A">>, <<"S">>, <<"1">>, <<"Q">>, <<"Return">>, <<"RETURN">>,
   <<"Space">>, <<"kVK_", "ANSI_", "A">>, <<"kVK_", "ANSI_", "S">>,
   <<"kVK_", "Return">>, <<"kVK_", "Bogus">>}

\* str.capitalize on the names of KeyInputs that are all upper case
capitalize ==
  (<<"A">> :> <<"A">>) @@ (<<"S">> :> <<"S">>) @@ (<<"Q">> :> <<"Q">>)
  @@ (<<"RETURN">> :> <<"Return">>)

\* if key.isupper(): key = key.capitalize()
normalised(key) == IF key \in DOMAIN capitalize THEN capitalize[key] ELSE key

startswith(key, pre) ==
  Len(key) >= Len(pre) /\ SubSeq(key, 1, Len(pre)) = pre

\* table.get(key if key.startswith(pre) else pre + key, None)
getPrefixed(table, pre, key) ==
  LET name == IF startswith(key, pre) THEN key ELSE pre \o key
  IN IF name \in DOMAIN table THEN table[name] ELSE NoKey

\* bool(x) of a key code or None
truthy(x) == x # NoKey /\ x # 0

\* a or b
pyOr(a, b) == IF truthy(a) THEN a ELSE b

\* _hexKey
hexKey(key) ==
  pyOr(getPrefixed(keycode, ANSIPrefix, key),
       getPrefixed(c_keycode, KVKPrefix, key))

\* _pressKey(key); r = the status CGPostKeyboardEvent hands back; the key
\* code posted is recorded in the field count of the call
PressKey(key, r) ==
  /\ CanCall
  /\ LET hex == hexKey(normalised(key))
     IN IF truthy(hex)
          THEN /\ status' = r
               /\ Done("pressKey", key, plainResult(r), {"postKey"}, FALSE,
                       hex, r)
          ELSE /\ Done("pressKey", key, Err(kCGErrorIllegalArgument), {},
                       FALSE, NoKey, 0)
               /\ UNCHANGED status
  /\ UNCHANGED <<Env, hw, loadCount, svars, cvars>>

\* ----------------------------------------------------------- setPalette
\* statuses CGDisplaySetPalette hands back
PaletteStatuses == RawStatuses \cup {kCGErrorNoneAvailable}

\* _setPalette(); r = the status of CGDisplaySetPalette, can = the answer of
\* CGDisplayCanSetPalette (recorded in the field cap of the call). The write
\* is the first statement; `or` asks CGDisplayCanSetPalette only when the
\* status is not NoneAvailable.
SetPalette(can, r) ==
  /\ CanCall
  /\ status' = r
  /\ LET asked == IF r = kCGErrorNoneAvailable THEN {} ELSE {"canSetPalette"}
         ret == IF r = kCGErrorNoneAvailable \/ can
                  THEN Raise("QErrorNoneAvailable")
                  ELSE IF r = kCGErrorSuccess
                         THEN Err(kCGErrorSuccess)
                         ELSE Err(kCGErrorNoneAvailable)
     IN Done("setPalette", <<>>, ret, {"setPalette"} \cup asked, can, 0, r)
  /\ UNCHANGED <<Env, hw, loadCount, svars, cvars>>

\* ----------------------------------------------------- retainNativeMode
\* IO flags a display mode can carry, with and without the native bit
FlagInputs == {0, 3, kDisplayModeNativeFlag, kDisplayModeNativeFlag + 3}

\* the mode lists CGDisplayCopyAllDisplayModes can hand back: a mode is
\* stood for by its IO flags
ModeLists == UNION {[1..n -> FlagInputs] : n \in 0..MaxModes}

\* CGDisplayModeGetIOFlags(cur_mode) & _kDisplayModeNativeFlag, the flag
\* being one bit
nativeBit(flags) == (flags \div kDisplayModeNativeFlag) % 2 = 1

\* the body of the loop at index i (from 1): each of its paths returns, the
\* second one with None, so the loop never reaches index i + 1; with no
\* modes left the function falls off its end
scanFrom(modes, i) ==
  IF i > Len(modes) THEN RetNone
  ELSE IF nativeBit(modes[i]) THEN Value(modes[i])
  ELSE RetNone

\* _modeRetain(); the number of modes examined is recorded in the field
\* count of the call
ModeRetain(modes) ==
  /\ CanCall
  /\ Done("retainNativeMode", modes, scanFrom(modes, 1),
          {"copyAllDisplayModes"}, FALSE,
          IF Len(modes) = 0 THEN 0 ELSE 1, 0)
  /\ UNCHANGED <<Env, hw, status, loadCount, svars, cvars>>

\* ---------------------------------------------------------- setTransfer
\* table_size = Quartz.kCGDisplayEnabledFlag, which is 1 << 8
TableSize == 256

\* the entry counts passed as tablesNum
TransferSizes == {1, TableSize}

\* c_value for index rgb, in exact arithmetic: adjusted is
\* (2 * rgb + 255) / 1020, clamped to 0..1, times 255, truncated by int()
cValue(rgb) ==
  LET num == 2 * rgb + 255
      clamped == IF num < 0 THEN 0 ELSE IF num > 1020 THEN 1020 ELSE num
  IN (clamped * 255) \div 1020

\* a table of TableSize zeroed bytes whose entries 0..upto have been set by
\* the loop
filled(upto) ==
  [i \in 0..(TableSize - 1) |-> IF i <= upto THEN cValue(i) ELSE 0]

\* tables(): the return statement is inside the loop, so the three tables
\* are handed back at the end of the iteration rgb = 0
tables == <<filled(0), filled(0), filled(0)>>

\* _setTransfer(tablesNum); r = the status CGSetDisplayTransferByTable
\* hands back
SetTransfer(tablesNum, r) ==
  /\ CanCall
  /\ status' = r
  /\ hw' = IF r = kCGErrorSuccess
             THEN [hw EXCEPT !.transfer =
                     [size |-> tablesNum, red |-> tables[1],
                      green |-> tables[2], blue |-> tables[3]]]
             ELSE hw
  /\ Done("setTransfer", <<tablesNum>>, plainResult(r),
          {"setTransferByTable"}, FALSE, 0, r)
  /\ UNCHANGED <<Env, loadCount, svars, cvars>>

\* ------------------------------------------------------ capture object
\* _pixelFormats
PixelFormats == {"420f", "l10r", "BGR", "420v"}

\* pixel formats passed to the constructor: two supported, one not
FormatInputs == {"BGR", "420v", "RGBA"}

\* CGDisplayStreamFrameStatus: FrameComplete, FrameIdle, FrameBlank
FrameStatuses == {0, 1, 2}

\* the alternatives of the pattern in run(), in the order written
ExtList == << <<"j", "p", "e", "g">>, <<"b", "m", "p">>, <<"p", "n", "g">>,
              <<"g", "i", "f">>, <<"t", "i", "f", "f">> >>

Alphabet == {".", "p", "n", "g", "x"}
BoundedPaths == UNION {[1..n -> Alphabet] : n \in 0..MaxPathLen}

FramePng == <<"f", "r", "a", "m", "e", ".", "p", "n", "g">>
OutTxt == <<"o", "u", "t", ".", "t", "x", "t">>
AJpeg == <<"a", ".", "j", "p", "e", "g">>
ABmp == <<"a", ".", "b", "m", "p">>
AGif == <<"a", ".", "g", "i", "f">>
ATiff == <<"a", ".", "t", "i", "f", "f">>
Tiff == <<"t", "i", "f", "f">>
GifTxt == <<"a", "g", "i", "f", ".", "t", "x", "t">>
SamplePaths == {FramePng, OutTxt, AJpeg, ABmp, AGif, ATiff, Tiff, GifTxt}
AllPaths == BoundedPaths \cup SamplePaths
StreamPaths == {FramePng, OutTxt, AGif}

NoSCall == [op |-> "", path |-> <<>>, ret |-> RetNone, acquired |-> {}]

\* DisplayStreamDelegate.__init__(display, pixel_format, ...)
StreamConstruct(d, pf) ==
  /\ sess.state = "none"
  /\ sess' = [state |-> IF d \notin activeSet THEN "IndexError"
                        ELSE IF pf \notin PixelFormats THEN "ValueError"
                        ELSE "ok",
              display |-> d, format |-> pf]
  /\ UNCHANGED <<dvars, cvars, runsLeft, runPc, runCall, streams, live,
                 queues, deliveries, writeLog, files, stopCalls>>

\* '.' of the pattern under re.DOTALL: any one character
dotMatches(c) == TRUE

\* the alternative that matches at position i of f: 0 when none does
matchAt(f, i) ==
  LET hits == {k \in 1..Len(ExtList) :
                 /\ dotMatches(f[i])
                 /\ i + Len(ExtList[k]) <= Len(f)
                 /\ SubSeq(f, i + 1, i + Len(ExtList[k])) = ExtList[k]}
  IN IF hits = {} THEN 0 ELSE CHOOSE k \in hits : \A j \in hits : k <= j

RECURSIVE findall(_, _)
\* re.findall(r'.jpeg|.bmp|.png|.gif|.tiff', f, flags=re.DOTALL), from i on
findall(f, i) ==
  IF i > Len(f) THEN <<>>
  ELSE LET k == matchAt(f, i)
       IN IF k = 0 THEN findall(f, i + 1)
          ELSE <<SubSeq(f, i, i + Len(ExtList[k]))>>
                 \o findall(f, i + Len(ExtList[k]) + 1)

\* run(filename) up to time.sleep(1)
RunStart(filename) ==
  /\ sess.state = "ok" /\ runPc = "idle" /\ runsLeft > 0
  /\ runsLeft' = runsLeft - 1
  /\ IF findall(filename, 1) = <<>>
       THEN /\ runCall' = [op |-> "run", path |-> filename,
                           ret |-> Raise("ValueError"), acquired |-> {}]
            /\ UNCHANGED <<runPc, streams, live, queues>>
       ELSE /\ queues' = queues + 1
            /\ streams' = Append(streams, filename)
            /\ live' = live \cup {Len(streams) + 1}
            /\ runPc' = "sleeping"
            /\ runCall' = [op |-> "run", path |-> filename, ret |-> RetNone,
                           acquired |-> {"queue", "stream", "start"}]
  /\ UNCHANGED <<dvars, cvars, sess, deliveries, writeLog, files, stopCalls>>

\* run() returns after the sleep; its local `stream` goes out of scope without
\* CGDisplayStreamStop: whether the platform keeps the stream is open (kept)
RunReturn(kept) ==
  /\ runPc = "sleeping"
  /\ runPc' = "idle"
  /\ live' = IF kept THEN live ELSE live \ {Len(streams)}
  /\ UNCHANGED <<dvars, cvars, sess, runsLeft, runCall, streams, queues,
                 deliveries, writeLog, files, stopCalls>>

writesAlways(st) == TRUE

\* handler: if status == self._kCGErrorSuccess
writesFrame(st) == st = kCGErrorSuccess

\* the platform delivers a frame with status st to the handler of stream i
Deliver(i, st) ==
  /\ i \in live
  /\ Len(deliveries) < MaxFrames
  /\ LET fr == Len(deliveries) + 1
     IN /\ deliveries' = Append(deliveries,
                                [stream |-> i, status |-> st, frame |-> fr])
        /\ IF writesFrame(st)
             THEN /\ writeLog' = Append(writeLog,
                                        [path |-> streams[i], frame |-> fr])
                  /\ files' = (streams[i] :> fr) @@ files
             ELSE UNCHANGED <<writeLog, files>>
  /\ UNCHANGED <<dvars, cvars, sess, runsLeft, runPc, runCall, streams, live,
                 queues, stopCalls>>

\* stop(): DisplayStreamDelegate defines __init__ and run only, so the call
\* is an AttributeError and nothing is torn down
Stop ==
  /\ sess.state = "ok" /\ runPc = "idle" /\ stopCalls < MaxStops
  /\ stopCalls' = stopCalls + 1
  /\ runCall' = [op |-> "stop", path |-> <<>>,
                 ret |-> Raise("AttributeError"), acquired |-> {}]
  /\ UNCHANGED <<dvars, cvars, sess, runsLeft, runPc, streams, live, queues,
                 deliveries, writeLog, files>>

\* ------------------------------------------- commands run by threads
\* self.status is one field of the handle, shared by every thread; no lock
\* is taken anywhere in cgdisplay.py.  A command is cut where the interpreter
\* can switch threads: entering the platform call (which runs without the
\* interpreter lock), `self.status = <its result>`, and the later reads of
\* self.status that choose the return value (setGamma and setTransfer sleep
\* in between).  Arguments are fixed and valid: setGamma(1, 2, 1),
\* setRotation(90) on a device that can rotate, setDisplayMode(1) of 2 modes,
\* and CGBeginDisplayConfiguration succeeded.
MutOps == {"setGamma", "setTransfer", "setMirror", "setDisplayMode",
           "setRotation"}

\* _setMirror after CGCompleteDisplayConfiguration
mirrorResult(st) ==
  IF st = kCGErrorSuccess THEN Err(kCGErrorSuccess)
  ELSE IF st = kCGErrorIllegalArgument THEN RetNone
  ELSE Err(st)

\* what command op returns when the self.status it reads is st
opResult(op, st) ==
  CASE op = "setGamma" -> gammaResult(st)
    [] op = "setMirror" -> mirrorResult(st)
    [] op = "setRotation" -> rotationResult(90, st)
    [] OTHER -> plainResult(st)

\* the hardware after command op succeeded
opEffect(op, h) ==
  CASE op = "setGamma" -> [h EXCEPT !.gamma = <<1, 1, 2>>]
    [] op = "setRotation" -> [h EXCEPT !.orientation = 90]
    [] op = "setDisplayMode" -> [h EXCEPT !.mode = 2]
    [] OTHER -> h

\* thread t enters the platform call of command op
CBegin(t, op) ==
  /\ hState = "ok" /\ pc[t] = "idle"
  /\ IF op \in {"setDisplayMode", "setRotation"} THEN load
     ELSE UNCHANGED loadCount
  /\ pc' = [pc EXCEPT ![t] = "inPrim"]
  /\ tOp' = [tOp EXCEPT ![t] = op]
  /\ writers' = writers \cup {t}
  /\ UNCHANGED <<Env, hw, status, opCount, call, svars, own, tRet>>

\* the platform call of thread t hands back r: self.status = r
CEnd(t, r) ==
  /\ pc[t] = "inPrim"
  /\ writers' = writers \ {t}
  /\ status' = r
  /\ own' = [own EXCEPT ![t] = r]
  /\ hw' = IF r = kCGErrorSuccess THEN opEffect(tOp[t], hw) ELSE hw
  /\ pc' = [pc EXCEPT ![t] = "stored"]
  /\ UNCHANGED <<Env, loadCount, opCount, call, svars, tOp, tRet>>

\* thread t reads self.status and returns
CReturn(t) ==
  /\ pc[t] = "stored"
  /\ tRet' = [tRet EXCEPT ![t] = opResult(tOp[t], status)]
  /\ pc' = [pc EXCEPT ![t] = "done"]
  /\ UNCHANGED <<dvars, svars, tOp, own, writers>>

\* the handle and the bookkeeping before the constructor has run
Fresh ==
  /\ hw = HwInit
  /\ hState = "none"
  /\ ctorId = 0
  /\ display = 0
  /\ status = StatusPlaceholder
  /\ loadCount = [s \in Subsystems |-> 0]
  /\ opCount = 0
  /\ call = NoCall
  /\ sess = [state |-> "none", display |-> 0, format |-> ""]
  /\ runPc = "idle"
  /\ runCall = NoSCall
  /\ streams = <<>>
  /\ live = {}
  /\ queues = 0
  /\ deliveries = <<>>
  /\ writeLog = <<>>
  /\ files = <<>>
  /\ stopCalls = 0
  /\ pc = [t \in Threads |-> "idle"]
  /\ tOp = [t \in Threads |-> ""]
  /\ own = [t \in Threads |-> 0]
  /\ tRet = [t \in Threads |-> RetNone]
  /\ writers = {}

\* a machine with one active display, which is then the main display
Init ==
  /\ activeSet = {1}
  /\ mainDisplay = 1
  /\ builtinSet \in SUBSET activeSet
  /\ avail \in SUBSET Subsystems
  /\ runsLeft = MaxRuns
  /\ Fresh

\* any set of active displays; with none, CGMainDisplayID() is
\* kCGNullDirectDisplay
InitCtor ==
  /\ activeSet \in SUBSET (1..MaxId)
  /\ mainDisplay \in (IF activeSet = {} THEN {0} ELSE activeSet)
  /\ builtinSet \in SUBSET activeSet
  /\ avail \in SUBSET Subsystems
  /\ runsLeft = MaxRuns
  /\ Fresh

NextCtor == \E id \in Ids, b \in BOOLEAN : Construct(id, b)

Next ==
  \/ \E id \in Ids, b \in BOOLEAN : Construct(id, b)
  \/ \E i \in 0..(MaxModes + 1), c \in 0..MaxModes, r \in RawStatuses :
       SetDisplayMode(i, c, r)
  \/ \E a \in Angles, can \in BOOLEAN, r \in RawStatuses :
       SetRotation(a, can, r)
  \/ \E has \in BOOLEAN : DefaultMode(has)
  \/ \E v \in Coeffs, r \in RawStatuses : SetDisplayBrightness(v, r)
  \/ \E r \in RawStatuses : GetDisplayBrightness(r)
  \/ \E sup \in BOOLEAN, took \in BOOLEAN : SwitchTrueTone(sup, took)
  \/ DisplayProperties
  \/ \E red \in Coeffs, blue \in Coeffs, green \in Coeffs, r \in RawStatuses :
       SetGamma(red, blue, green, r)
  \/ \E x \in Coords, y \in Coords, r \in RawStatuses : MoveTo(x, y, r)

Spec == Init /\ [][Next]_vars

\* one active display; the capture object not yet constructed
InitStream ==
  /\ activeSet = {1}
  /\ mainDisplay = 1
  /\ builtinSet = {1}
  /\ avail = Subsystems
  /\ runsLeft = MaxRuns
  /\ Fresh

\* the paths to try in a state: none where run() cannot be called at all
RunInputs(S) ==
  IF sess.state = "ok" /\ runPc = "idle" /\ runsLeft > 0 THEN S ELSE {}

StreamSteps ==
  \/ \E d \in 1..2, pf \in FormatInputs : StreamConstruct(d, pf)
  \/ \E kept \in BOOLEAN : RunReturn(kept)
  \/ \E i \in 1..MaxRuns, st \in FrameStatuses : Deliver(i, st)
  \/ Stop

NextStream ==
  \/ StreamSteps
  \/ \E f \in RunInputs(StreamPaths) : RunStart(f)

SpecStream == InitStream /\ [][NextStream]_vars

\* as InitStream, for a caller that calls run() once
InitExt ==
  /\ activeSet = {1}
  /\ mainDisplay = 1
  /\ builtinSet = {1}
  /\ avail = Subsystems
  /\ runsLeft = 1
  /\ Fresh

NextExt ==
  \/ StreamSteps
  \/ \E f \in RunInputs(AllPaths) : RunStart(f)

SpecExt == InitExt /\ [][NextExt]_vars

\* one active display, every optional subsystem loadable
InitConc ==
  /\ activeSet = {1}
  /\ mainDisplay = 1
  /\ builtinSet \in SUBSET activeSet
  /\ avail = Subsystems
  /\ runsLeft = MaxRuns
  /\ Fresh

NextConc ==
  \/ \E id \in Ids, b \in BOOLEAN : Construct(id, b)
  \/ \E t \in Threads, op \in MutOps : CBegin(t, op)
  \/ \E t \in Threads, r \in RawStatuses : CEnd(t, r)
  \/ \E t \in Threads : CReturn(t)

SpecConc == InitConc /\ [][NextConc]_vars

\* the translation alone, applied to every raw status of TranslateInputs
NextTranslate == \E n \in TranslateInputs : ErrName(n)

SpecTranslate == InitStream /\ [][NextTranslate]_vars

\* coefficients passed to setGamma when it is checked on its own
GammaInputs == (-1)..MaxCoeff

\* the constructor and setGamma, over every triple of GammaInputs
NextGamma ==
  \/ \E id \in Ids, b \in BOOLEAN : Construct(id, b)
  \/ \E red \in GammaInputs, blue \in GammaInputs, green \in GammaInputs,
        r \in {kCGErrorSuccess, kCGErrorRangeCheck} :
       SetGamma(red, blue, green, r)

SpecGamma == InitConc /\ [][NextGamma]_vars

\* the constructor and pressKey, over every name of KeyInputs
NextKeys ==
  \/ \E id \in Ids, b \in BOOLEAN : Construct(id, b)
  \/ \E key \in KeyInputs, r \in RawStatuses : PressKey(key, r)

SpecKeys == InitConc /\ [][NextKeys]_vars

\* the constructor and setPalette, over every answer of the platform and
\* whichever optional subsystems can be loaded (setPalette loads none)
NextPalette ==
  \/ \E id \in Ids, b \in BOOLEAN : Construct(id, b)
  \/ \E can \in BOOLEAN, r \in PaletteStatuses : SetPalette(can, r)

SpecPalette == Init /\ [][NextPalette]_vars

\* the constructor and retainNativeMode, over every list of ModeLists
NextModes ==
  \/ \E id \in Ids, b \in BOOLEAN : Construct(id, b)
  \/ \E modes \in ModeLists : ModeRetain(modes)

SpecModes == InitConc /\ [][NextModes]_vars

\* the constructor and setTransfer, whichever optional subsystems can be
\* loaded (setTransfer loads none)
NextTransfer ==
  \/ \E id \in Ids, b \in BOOLEAN : Construct(id, b)
  \/ \E n \in TransferSizes, r \in RawStatuses : SetTransfer(n, r)

SpecTransfer == Init /\ [][NextTransfer]_vars

SpecCtor == InitCtor /\ [][NextCtor]_vars

\* ================================================================ claims
Max(S) == CHOOSE x \in S : \A y \in S : y <= x

\* C1 (Spec): over any sequence of commands on one handle, the load of each
\* optional subsystem is attempted at most once.
C1_LoadAtMostOnce == \A s \in Subsystems : loadCount[s] <= 1

\* C2 as stated (SpecCtor): constructing a handle for any id that is not in
\* the active-display set, 0 and negative ids included, fails with the
\* invalid-display error.
C2_Original ==
  (hState # "none" /\ ctorId \notin activeSet) => hState = "IndexError"

\* C2 amended (SpecCtor): for every non-zero id that is not in the
\* active-display set, construction fails with IndexError; id 0 stands for
\* the main display, and construction then fails with IndexError exactly
\* when the main display is not in the active-display set.
C2_Amended ==
  hState # "none" =>
    /\ (ctorId # 0 /\ ctorId \notin activeSet) => hState = "IndexError"
    /\ ctorId = 0 =>
         /\ display = mainDisplay
         /\ hState = "IndexError" <=> mainDisplay \notin activeSet

C2_Witness ==
  /\ hState = "IndexError"
  /\ ctorId > 0
  /\ ctorId \notin activeSet
  /\ activeSet # {}

\* C3 (Spec): with the legacy capability loaded and modeCount >= 1 modes,
\* setDisplayMode(index) returns IllegalArgument for index 0 and for index
\* modeCount + 1, and for 1 <= index <= modeCount it switches to a mode of
\* the reported set and returns the translated status without faulting.
C3_SetDisplayMode ==
  (call.op = "setDisplayMode" /\ loadOk(avail) /\ call.count >= 1) =>
    LET index == call.args[1]
    IN /\ index \in {0, call.count + 1} =>
            call.ret = Err(kCGErrorIllegalArgument)
       /\ index \in 1..call.count =>
            /\ call.ret = Err(call.raw)
            /\ "setMode" \in call.prims
            /\ call.raw = kCGErrorSuccess => hw.mode \in 1..call.count

\* C4 (Spec): on a rotation-capable device setRotation(angle) returns
\* IllegalArgument for every angle that is not a multiple of 90, whatever
\* the orientation primitive reports, and the primitive's translated status
\* for every multiple of 90.
C4_Rotation ==
  (call.op = "setRotation" /\ loadOk(avail) /\ call.cap) =>
    IF call.args[1] % 90 # 0
      THEN call.ret = Err(kCGErrorIllegalArgument)
      ELSE call.ret = Err(call.raw)

\* the command c turned its input down
Rejected(c) ==
  /\ c.ret = Err(kCGErrorIllegalArgument)
  /\ \/ c.op = "setRotation" /\ c.args[1] % 90 # 0
     \/ c.op = "setGamma" /\ c.args[1] = c.args[2] /\ c.args[2] = c.args[3]
     \/ c.op = "setDisplayMode" /\ (c.args[1] <= 0 \/ c.args[1] > c.count)
     \/ c.op = "moveTo" /\ (c.args[1] >= DisplayW \/ c.args[2] >= DisplayH)

\* C5 (Spec): a command that rejects its input has invoked no mutating
\* platform primitive, and the hardware state after it is the state before.
C5_RejectNoSideEffect ==
  [][(opCount' = opCount + 1 /\ Rejected(call'))
       => (call'.prims = {} /\ hw' = hw)]_vars

\* the text after the last "." of p; empty when p has no "."
Extension(p) ==
  LET dots == {i \in 1..Len(p) : p[i] = "."}
  IN IF dots = {} THEN <<>> ELSE SubSeq(p, Max(dots) + 1, Len(p))

ExtWords == {ExtList[k] : k \in 1..Len(ExtList)}

\* C6 (SpecExt): for every path whose extension is absent or not one of
\* jpeg, bmp, png, gif, tiff, run(path) fails, and in that call no delivery
\* queue is obtained and no stream is created or started.
C6_ExtensionChecked ==
  (runCall.op = "run" /\ Extension(runCall.path) \notin ExtWords) =>
    (runCall.ret = Raise("ValueError") /\ runCall.acquired = {})

\* C7 (SpecStream): over any sequence of calls on one capture object, at
\* most one underlying stream is ever created and started.
C7_OneStream == Len(streams) <= 1

\* C8 (SpecStream): once stop() has returned, no handler invocation occurs.
C8_NoHandlerAfterStop ==
  [][stopCalls > 0 => deliveries' = deliveries]_vars

IsSuccess(d) == d.status = 0

\* the frames delivered with status Success to a stream started on path p
SuccessTo(p) ==
  {deliveries[i].frame : i \in {j \in 1..Len(deliveries) :
     IsSuccess(deliveries[j]) /\ streams[deliveries[j].stream] = p}}

\* C9 (SpecStream): every delivered frame with status Success causes exactly
\* one write, to the path given to the run() that started its stream, a frame
\* with any other status causes none, and the file at a path holds the most
\* recent Success frame delivered for it.
C9_WritePerSuccessFrame ==
  LET succ == SelectSeq(deliveries, IsSuccess)
  IN /\ writeLog = [k \in 1..Len(succ) |->
                      [path |-> streams[succ[k].stream],
                       frame |-> succ[k].frame]]
     /\ DOMAIN files = {streams[i] : i \in {j \in 1..Len(streams) :
                                             SuccessTo(streams[j]) # {}}}
     /\ \A p \in DOMAIN files : files[p] = Max(SuccessTo(p))

C9_Witness ==
  \E i \in 1..Len(deliveries), j \in 1..Len(deliveries) :
    /\ i < j
    /\ deliveries[i].status = 0
    /\ deliveries[j].status # 0
    /\ Len(writeLog) = 1
    /\ files[streams[deliveries[i].stream]] = deliveries[i].frame

\* C10 (SpecConc): the hardware writes of two mutating commands on one
\* handle never overlap, and each command returns the status of its own
\* platform call.
C10_Serialized ==
  /\ Cardinality(writers) <= 1
  /\ \A t \in Threads : pc[t] = "done" => tRet[t] = opResult(tOp[t], own[t])

\* the name the fixed table gives raw status n
TableName(n) ==
  CASE n = 0 -> "_kCGErrorSuccess"
    [] n = 1000 -> "_kCGErrorFailure"
    [] n = 1001 -> "_kCGErrorIllegalArgument"
    [] n = 1011 -> "_kCGErrorNoneAvailable"
    [] n = 1970170734 -> "_kDisplayVendorIDUnknown"
    [] n = 1007 -> "_kCGErrorRangeCheck"
    [] OTHER -> "_kCGErrorSuccess"

\* C11 (SpecTranslate): the translation maps 0 to Success, 1000 to Failure,
\* 1001 to IllegalArgument, 1011 to NoneAvailable, 1970170734 to
\* VendorUnknown, 1007 to RangeCheck, and every other raw integer to Success.
C11_Translate ==
  call.op = "err" => call.ret = Name(TableName(call.args[1]))

C11_Witness ==
  /\ call.op = "err"
  /\ call.args[1] = 424242
  /\ call.ret = Name("_kCGErrorSuccess")

\* C12 (SpecGamma): setGamma returns IllegalArgument for every input whose
\* three channel coefficients are equal, whatever the shared value.
C12_EqualChannelsRejected ==
  (call.op = "setGamma" /\ call.args[1] = call.args[2]
     /\ call.args[2] = call.args[3])
    => call.ret = Err(kCGErrorIllegalArgument)

C12_Witness ==
  /\ call.op = "setGamma"
  /\ call.args = <<-1, -1, -1>>
  /\ call.ret = Err(kCGErrorIllegalArgument)
  /\ opCount = 2

\* the key code of the entry that name k matches: the first table under the
\* ANSI convention, else the second table, else none
Entry(k) ==
  LET ansi == IF startswith(k, ANSIPrefix) THEN k ELSE ANSIPrefix \o k
      kvk == IF startswith(k, KVKPrefix) THEN k ELSE KVKPrefix \o k
  IN IF ansi \in DOMAIN keycode THEN keycode[ansi]
     ELSE IF kvk \in DOMAIN c_keycode THEN c_keycode[kvk]
     ELSE NoKey

\* C13 (SpecKeys): pressKey returns IllegalArgument only when the name
\* matches no entry of either table; when it matches one (the first table
\* taking precedence) exactly one key-down event with that entry's key code
\* is posted and the translated status is returned, key code 0 included.
C13_PressKey ==
  call.op = "pressKey" =>
    LET e == Entry(normalised(call.args))
    IN IF e = NoKey
         THEN call.ret = Err(kCGErrorIllegalArgument) /\ call.prims = {}
         ELSE /\ call.prims = {"postKey"}
              /\ call.count = e
              /\ call.ret = Err(call.raw)

\* C14 (SpecPalette): setPalette writes no palette when the display does not
\* support palette changes and reports NoneAvailable; when the display
\* supports them it writes the default palette and returns the translated
\* status of that write.
C14_PaletteGuarded ==
  call.op = "setPalette" =>
    IF call.cap
      THEN "setPalette" \in call.prims /\ call.ret = Err(call.raw)
      ELSE "setPalette" \notin call.prims
             /\ call.ret = Err(kCGErrorNoneAvailable)

\* the positions of the modes of list m that are flagged native
NativeAt(m) == {i \in 1..Len(m) : (m[i] \div 33554432) % 2 = 1}

\* C15 (SpecModes): for every mode list, retainNativeMode returns the first
\* mode in list order whose native flag is set, whatever its position, and
\* the empty result only when no mode of the list is flagged native.
C15_FirstNative ==
  call.op = "retainNativeMode" =>
    LET m == call.args
    IN IF NativeAt(m) = {}
         THEN call.ret = RetNone
         ELSE call.ret = Value(m[CHOOSE i \in NativeAt(m) :
                                   \A j \in NativeAt(m) : i <= j])

\* C16 (SpecTransfer): the lookup table that setTransfer applies has 256
\* entries per channel, is the same for red, green and blue, and its entry i
\* is (2*i + 255) div 4 for every i in 0..255.
C16_TransferTable ==
  (call.op = "setTransfer" /\ call.raw = 0) =>
    /\ DOMAIN hw.transfer.red = 0..255
    /\ hw.transfer.green = hw.transfer.red
    /\ hw.transfer.blue = hw.transfer.red
    /\ \A i \in 0..255 : hw.transfer.red[i] = (2 * i + 255) \div 4

\* C17 (Spec): after any earlier operations on the handle, when the platform
\* call made by setBrightness returns a non-success raw status s, the error
\* code returned carries s and the handle's recorded status is s.
C17_BrightnessStatus ==
  (call.op = "setDisplayBrightness" /\ "setBrightness" \in call.prims
     /\ call.raw # kCGErrorSuccess)
    => (call.ret = Err(call.raw) /\ status = call.raw)
====
